---- MODULE Spec2Model ----
(***************************************************************************)
(* SynDx clinical dashboard (src/syndexv3.py): the WHO syndromic           *)
(* classifier, the additive triage scorer, the blood-pressure parser, the  *)
(* vital sign validation, the outbreak detector, the diagnosis run with    *)
(* its advisory call, the case log and its CSV file; and the classifier    *)
(* of the older variant src/app.py.                                        *)
(*                                                                         *)
(* Conventions of the model                                                *)
(*  - A Python value that may be None is a sequence of length 0 or 1:      *)
(*    None is <<>>, the number v is <<v>>.  Python truthiness of such a    *)
(*    value ("if sbp and ...") is Truthy: not None and not zero.           *)
(*  - A temperature is a float in the source; the model keeps it in        *)
(*    tenths of a degree, so 39 degrees is 390 and 38 degrees is 380.      *)
(*  - A text typed into a form field is a sequence of one-character        *)
(*    strings.                                                             *)
(*  - The non-ASCII dash and plus-minus sign of two treatment strings are  *)
(*    written "-" and "+/-".                                               *)
(***************************************************************************)
EXTENDS Integers, Sequences, FiniteSets, TLC

VARIABLES sex, pregnant, hiv, temp_val, bp, sbp, dbp, pain, symptoms,
          who_result, triage_score, triage, pc,
          authenticated, cases, case_counter, csv, outbreak_status,
          ai_out, screen, case_inputs, hr_val, vital_errors, peer_session

vars == <<sex, pregnant, hiv, temp_val, bp, sbp, dbp, pain, symptoms,
          who_result, triage_score, triage, pc,
          authenticated, cases, case_counter, csv, outbreak_status,
          ai_out, screen, case_inputs, hr_val, vital_errors, peer_session>>

\* st.session_state, the CSV file and what the last rerun put on the page;
\* case_inputs is a history variable: the form inputs and the advisory
\* outcome of the run that appended each record of this session
sessionVars == <<authenticated, cases, case_counter, csv, outbreak_status,
                 ai_out, screen, case_inputs>>

\* the heart rate read from the form and the warnings of validate_vitals
vitalVars == <<hr_val, vital_errors>>

(***************************************************************************)
(* Optional values and Python truthiness                                   *)
(***************************************************************************)
None == <<>>

Some(v) == <<v>>

Truthy(x) == x # None /\ x[1] # 0

Min(a, b) == IF a <= b THEN a ELSE b

(***************************************************************************)
(* Form domains of the STI Diagnosis tab                                   *)
(***************************************************************************)
SexOptions == {"Female", "Male"}

PregnantOptions == {"No", "Yes"}

HivOptions == {"Unknown", "Negative", "Positive"}

PainLevels == 0 .. 10

StiSymptomOptions ==
    {"Urethral discharge", "Vaginal discharge", "Dysuria (painful urination)",
     "Genital ulcer(s)", "Lower abdominal pain", "Dyspareunia",
     "Inguinal swelling/tenderness", "Testicular/scrotal pain/swelling",
     "Itching/burning", "Intermenstrual bleeding", "Postcoital bleeding"}

\* every tag a rule of who_sti_diagnosis or the severe set of the scorer
\* tests, together with the tags of the form: the argument of the pure
\* functions is any list of tags
SymptomTags == StiSymptomOptions \cup {"Fever"}

\* the tags the rules of who_sti_diagnosis look for in the symptom list
ClassifierTestedTags ==
    {"Lower abdominal pain", "Dyspareunia", "Fever", "Vaginal discharge",
     "Itching/burning", "Testicular/scrotal pain/swelling",
     "Dysuria (painful urination)", "Urethral discharge",
     "Inguinal swelling/tenderness", "Genital ulcer(s)"}

(***************************************************************************)
(* who_sti_diagnosis: the records returned by the branches                 *)
(***************************************************************************)
PIDRecord ==
    [probable  |-> "Pelvic Inflammatory Disease (PID)",
     possible  |-> "GC/CT, anaerobes",
     treatment |-> "Ceftriaxone 500 mg IM once + Doxycycline 100 mg PO bid x14d + Metronidazole 500 mg PO bid x14d",
     labs      |-> "Pregnancy test; pelvic exam; HIV & syphilis testing"]

VaginalDischargeRecord ==
    [probable  |-> "Vaginal discharge syndrome",
     possible  |-> "GC/CT, Trichomonas, BV",
     treatment |-> "Ceftriaxone 500 mg IM once + Doxycycline 100 mg PO bid x7d + Metronidazole 500 mg PO bid x7d",
     labs      |-> "Speculum exam; NAAT for GC/CT; wet mount; HIV/syphilis testing"]

EpididymoOrchitisRecord ==
    [probable  |-> "Epididymo-orchitis",
     possible  |-> "GC/CT, enteric organisms",
     treatment |-> "Ceftriaxone 500 mg IM once + Doxycycline 100 mg PO bid x10-14d",
     labs      |-> "Urinalysis; NAAT for GC/CT; ultrasound if torsion suspected"]

UrethralDischargeRecord ==
    [probable  |-> "Urethral discharge syndrome",
     possible  |-> "Gonorrhea, Chlamydia",
     treatment |-> "Ceftriaxone 500 mg IM once + Doxycycline 100 mg PO bid x7d",
     labs      |-> "NAAT for GC/CT; HIV & syphilis testing"]

InguinalBuboRecord ==
    [probable  |-> "Inguinal bubo syndrome",
     possible  |-> "LGV, chancroid",
     treatment |-> "Doxycycline 100 mg PO bid x21d OR Azithromycin 1g PO weekly x3",
     labs      |-> "Ultrasound if abscess; HIV & syphilis testing"]

GenitalUlcerRecord ==
    [probable  |-> "Genital ulcer disease",
     possible  |-> "Syphilis, HSV, +/-Chancroid",
     treatment |-> "Benzathine Penicillin G 2.4 MU IM once + Acyclovir 400 mg PO tid x7-10d; Add Azithromycin 1g PO if chancroid suspected",
     labs      |-> "RPR/VDRL; HIV testing; HSV PCR if available"]

\* mutant of FallbackRecord: the default branch forgets the labs
FallbackRecordNoLabs ==
    [probable  |-> "No clear WHO-defined syndrome",
     possible  |-> "Consider alternative causes",
     treatment |-> "Symptomatic care; reassess",
     labs      |-> ""]

FallbackRecord ==
    [probable  |-> "No clear WHO-defined syndrome",
     possible  |-> "Consider alternative causes",
     treatment |-> "Symptomatic care; reassess",
     labs      |-> "Screen HIV/syphilis; NAAT if feasible"]

(***************************************************************************)
(* who_sti_diagnosis: the conditions of the branches, in source order      *)
(***************************************************************************)
\* mutant of IsPID: pelvic pain counts only together with fever
IsPIDNeedsFever(sx, s) ==
    sx = "Female" /\ (("Fever" \in s /\ "Lower abdominal pain" \in s)
                      \/ "Dyspareunia" \in s
                      \/ ("Fever" \in s /\ "Vaginal discharge" \in s))

IsPID(sx, s) ==
    sx = "Female" /\ ("Lower abdominal pain" \in s
                      \/ "Dyspareunia" \in s
                      \/ ("Fever" \in s /\ "Vaginal discharge" \in s))

\* mutant of IsVaginalDischarge: the itching/burning disjunct is missing
IsVaginalDischargeNoItching(sx, s) ==
    sx = "Female" /\ "Vaginal discharge" \in s

IsVaginalDischarge(sx, s) ==
    sx = "Female" /\ ("Vaginal discharge" \in s \/ "Itching/burning" \in s)

\* mutant of IsEpididymoOrchitis: the sex gate is missing
IsEpididymoOrchitisAnySex(sx, s) ==
    "Testicular/scrotal pain/swelling" \in s
    \/ ("Fever" \in s /\ "Dysuria (painful urination)" \in s)

IsEpididymoOrchitis(sx, s) ==
    sx = "Male" /\ ("Testicular/scrotal pain/swelling" \in s
                    \/ ("Fever" \in s /\ "Dysuria (painful urination)" \in s))

\* mutant of IsUrethralDischarge: the sex gate is missing
IsUrethralDischargeAnySex(sx, s) ==
    "Urethral discharge" \in s \/ "Dysuria (painful urination)" \in s

IsUrethralDischarge(sx, s) ==
    sx = "Male" /\ ("Urethral discharge" \in s
                    \/ "Dysuria (painful urination)" \in s)

IsInguinalBubo(s) == "Inguinal swelling/tenderness" \in s

IsGenitalUlcer(s) == "Genital ulcer(s)" \in s

\* mutant of who_sti_diagnosis: urethral discharge is tested before
\* epididymo-orchitis
who_sti_diagnosis_UrethralFirst(sx, preg, syms) ==
    LET s == syms
    IN  IF IsPID(sx, s) THEN PIDRecord
        ELSE IF IsVaginalDischarge(sx, s) THEN VaginalDischargeRecord
        ELSE IF IsUrethralDischarge(sx, s) THEN UrethralDischargeRecord
        ELSE IF IsEpididymoOrchitis(sx, s) THEN EpididymoOrchitisRecord
        ELSE IF IsInguinalBubo(s) THEN InguinalBuboRecord
        ELSE IF IsGenitalUlcer(s) THEN GenitalUlcerRecord
        ELSE FallbackRecord

\* mutant of who_sti_diagnosis: genital ulcers are tested before the
\* inguinal bubo
who_sti_diagnosis_UlcerFirst(sx, preg, syms) ==
    LET s == syms
    IN  IF IsPID(sx, s) THEN PIDRecord
        ELSE IF IsVaginalDischarge(sx, s) THEN VaginalDischargeRecord
        ELSE IF IsEpididymoOrchitis(sx, s) THEN EpididymoOrchitisRecord
        ELSE IF IsUrethralDischarge(sx, s) THEN UrethralDischargeRecord
        ELSE IF IsGenitalUlcer(s) THEN GenitalUlcerRecord
        ELSE IF IsInguinalBubo(s) THEN InguinalBuboRecord
        ELSE FallbackRecord

\* s = set(symptoms); the first branch whose condition holds returns
who_sti_diagnosis(sx, preg, syms) ==
    LET s == syms
    IN  IF IsPID(sx, s) THEN PIDRecord
        ELSE IF IsVaginalDischarge(sx, s) THEN VaginalDischargeRecord
        ELSE IF IsEpididymoOrchitis(sx, s) THEN EpididymoOrchitisRecord
        ELSE IF IsUrethralDischarge(sx, s) THEN UrethralDischargeRecord
        ELSE IF IsInguinalBubo(s) THEN InguinalBuboRecord
        ELSE IF IsGenitalUlcer(s) THEN GenitalUlcerRecord
        ELSE FallbackRecord

(***************************************************************************)
(* who_sti_diagnosis of the older variant src/app.py: the same decision    *)
(* list and the same records, with narrower tests in rules 1, 2 and 3      *)
(***************************************************************************)
app_IsPID(sx, s) == sx = "Female" /\ "Lower abdominal pain" \in s

app_IsVaginalDischarge(sx, s) == sx = "Female" /\ "Vaginal discharge" \in s

app_IsEpididymoOrchitis(sx, s) ==
    sx = "Male" /\ "Testicular/scrotal pain/swelling" \in s

app_IsUrethralDischarge(sx, s) ==
    /\ sx = "Male"
    /\ ("Urethral discharge" \in s \/ "Dysuria (painful urination)" \in s)

app_IsInguinalBubo(s) == "Inguinal swelling/tenderness" \in s

app_IsGenitalUlcer(s) == "Genital ulcer(s)" \in s

\* mutant of app_who_sti_diagnosis: genital ulcer disease is tested before
\* the inguinal bubo
app_who_sti_diagnosis_UlcerFirst(sx, preg, syms) ==
    IF app_IsPID(sx, syms) THEN PIDRecord
    ELSE IF app_IsVaginalDischarge(sx, syms) THEN VaginalDischargeRecord
    ELSE IF app_IsEpididymoOrchitis(sx, syms) THEN EpididymoOrchitisRecord
    ELSE IF app_IsUrethralDischarge(sx, syms) THEN UrethralDischargeRecord
    ELSE IF app_IsGenitalUlcer(syms) THEN GenitalUlcerRecord
    ELSE IF app_IsInguinalBubo(syms) THEN InguinalBuboRecord
    ELSE FallbackRecord

app_who_sti_diagnosis(sx, preg, syms) ==
    IF app_IsPID(sx, syms) THEN PIDRecord
    ELSE IF app_IsVaginalDischarge(sx, syms) THEN VaginalDischargeRecord
    ELSE IF app_IsEpididymoOrchitis(sx, syms) THEN EpididymoOrchitisRecord
    ELSE IF app_IsUrethralDischarge(sx, syms) THEN UrethralDischargeRecord
    ELSE IF app_IsInguinalBubo(syms) THEN InguinalBuboRecord
    ELSE IF app_IsGenitalUlcer(syms) THEN GenitalUlcerRecord
    ELSE FallbackRecord

(***************************************************************************)
(* parse_bp: re.match(r"\s*(\d+)\s*/\s*(\d+)\s*", str(bp_str))             *)
(***************************************************************************)
Digits == {"0", "1", "2", "3", "4", "5", "6", "7", "8", "9"}

Whitespace == {" "}

DigitVal(c) ==
    CASE c = "0" -> 0 [] c = "1" -> 1 [] c = "2" -> 2 [] c = "3" -> 3
      [] c = "4" -> 4 [] c = "5" -> 5 [] c = "6" -> 6 [] c = "7" -> 7
      [] c = "8" -> 8 [] c = "9" -> 9

\* \s* and \d+ are greedy: the first position at or after i whose character
\* is not in the class (Len(t) + 1 when the text ends first)
RECURSIVE SkipClass(_, _, _)
SkipClass(t, i, class) ==
    IF i <= Len(t) /\ t[i] \in class THEN SkipClass(t, i + 1, class) ELSE i

\* int(m.group(k)) of the digits t[i] .. t[j - 1]
RECURSIVE IntOf(_, _, _)
IntOf(t, i, j) ==
    IF j <= i THEN 0 ELSE IntOf(t, i, j - 1) * 10 + DigitVal(t[j - 1])

\* the pair (systolic, diastolic); the match is anchored at the start of the
\* text only, so whatever follows the diastolic digits is not looked at
parse_bp(bp_str) ==
    IF bp_str = <<>> THEN <<None, None>>
    ELSE LET a == SkipClass(bp_str, 1, Whitespace)
             b == SkipClass(bp_str, a, Digits)
             c == SkipClass(bp_str, b, Whitespace)
             d == SkipClass(bp_str, c + 1, Whitespace)
             e == SkipClass(bp_str, d, Digits)
         IN  IF b > a /\ c <= Len(bp_str) /\ bp_str[c] = "/" /\ e > d
             THEN <<Some(IntOf(bp_str, a, b)), Some(IntOf(bp_str, d, e))>>
             ELSE <<None, None>>

(***************************************************************************)
(* calculate_triage_score, enhanced_triage_level, triage_level             *)
(***************************************************************************)
\* mutant of TempPoints: the two increments are exchanged
TempPointsSwapped(t) ==
    IF Truthy(t) /\ t[1] >= 390 THEN 1
    ELSE IF Truthy(t) /\ t[1] >= 380 THEN 3
    ELSE 0

\* if temp and temp >= 39: +3  elif temp and temp >= 38: +1
TempPoints(t) ==
    IF Truthy(t) /\ t[1] >= 390 THEN 3
    ELSE IF Truthy(t) /\ t[1] >= 380 THEN 1
    ELSE 0

\* if sbp and sbp < 90: +3  elif sbp and sbp < 100: +1
BpPoints(b) ==
    IF Truthy(b) /\ b[1] < 90 THEN 3
    ELSE IF Truthy(b) /\ b[1] < 100 THEN 1
    ELSE 0

\* min(3, pain // 3)
PainPoints(p) == Min(3, p \div 3)

PregnantPoints(preg) == IF preg = "Yes" THEN 2 ELSE 0

HivPoints(h) == IF h = "Positive" THEN 1 ELSE 0

severe_symptoms ==
    {"Lower abdominal pain", "Testicular/scrotal pain/swelling", "Fever"}

\* if any(s in symptoms for s in severe_symptoms): +2
SeverePoints(syms) == IF \E s \in severe_symptoms : s \in syms THEN 2 ELSE 0

\* mutant of calculate_triage_score: the final min(10, score) is missing
calculate_triage_score_NoCap(t, b, p, preg, h, syms) ==
    TempPoints(t) + BpPoints(b) + PainPoints(p)
    + PregnantPoints(preg) + HivPoints(h) + SeverePoints(syms)

calculate_triage_score(t, b, p, preg, h, syms) ==
    Min(10, TempPoints(t) + BpPoints(b) + PainPoints(p)
            + PregnantPoints(preg) + HivPoints(h) + SeverePoints(syms))

\* mutant of enhanced_triage_level: RED only above 7
enhanced_triage_level_StrictRed(score, syms, preg) ==
    IF score > 7 THEN "RED" ELSE IF score >= 4 THEN "YELLOW" ELSE "GREEN"

\* mutant of triage_level: the threshold rules of the older variant
triage_level_Thresholds(t, b, p, preg, h, syms) ==
    IF \/ (Truthy(t) /\ t[1] >= 390)
       \/ (Truthy(b) /\ b[1] < 90)
       \/ p >= 8
       \/ ("Lower abdominal pain" \in syms /\ preg = "Yes")
       \/ ("Testicular/scrotal pain/swelling" \in syms /\ p >= 7)
    THEN "RED"
    ELSE IF \/ p >= 5
            \/ (Truthy(t) /\ t[1] >= 380 /\ t[1] < 390)
            \/ preg = "Yes"
            \/ h = "Positive"
         THEN "YELLOW"
         ELSE "GREEN"

enhanced_triage_level(score, syms, preg) ==
    IF score >= 7 THEN "RED" ELSE IF score >= 4 THEN "YELLOW" ELSE "GREEN"

triage_level(t, b, p, preg, h, syms) ==
    enhanced_triage_level(calculate_triage_score(t, b, p, preg, h, syms),
                          syms, preg)

(***************************************************************************)
(* validate_vitals.  The heart rate is kept in whole beats per minute; bp  *)
(* is the pair (sbp, dbp) the call site builds, which is never an empty    *)
(* tuple.  The degree sign of the first message is left out.               *)
(***************************************************************************)
TempWarning == "Temperature outside normal range (35-42 C)"

HrWarning == "Heart rate outside normal range (40-180 bpm)"

SbpWarning == "Systolic BP outside normal range (60-250 mmHg)"

DbpWarning == "Diastolic BP outside normal range (40-150 mmHg)"

\* errors.append(msg) when the test holds
WarnIf(test, msg) == IF test THEN <<msg>> ELSE <<>>

validate_vitals(t, hr, b) ==
       WarnIf(Truthy(t) /\ (t[1] < 350 \/ t[1] > 420), TempWarning)
    \o WarnIf(Truthy(hr) /\ (hr[1] < 40 \/ hr[1] > 180), HrWarning)
    \o WarnIf(b # <<>> /\ Truthy(b[1]) /\ (b[1][1] < 60 \/ b[1][1] > 250),
              SbpWarning)
    \o WarnIf(b # <<>> /\ Truthy(b[2]) /\ (b[2][1] < 40 \/ b[2][1] > 150),
              DbpWarning)

(***************************************************************************)
(* detect_outbreak_patterns.  A case record keeps its symptoms as the text *)
(* ";".join(symptoms); the model keeps the set of tags joined.  A status   *)
(* is the message kind together with the set of symptoms the message       *)
(* names.                                                                  *)
(***************************************************************************)
MinOutbreakCases == 10

OutbreakWindow == 50

InsufficientData == [kind |-> "Insufficient data for outbreak detection",
                     named |-> {}]

NoOutbreak == [kind |-> "No outbreak patterns detected", named |-> {}]

OutbreakAlert(names) ==
    [kind |-> "Potential outbreak pattern detected", named |-> names]

\* mutant of TailRows: the first n rows
TailRows_Head(df, n) == SubSeq(df, 1, n)

\* cases_df.tail(n)
TailRows(df, n) == SubSeq(df, Len(df) - n + 1, Len(df))

\* str.split(';') of the joined text: the tags joined, and the one empty
\* string when the text is empty
SplitSymptoms(joined) == IF joined = {} THEN {""} ELSE joined

\* explode().value_counts(): the number of windowed cases that carry the tag
SymptomCount(recent, tag) ==
    Cardinality({i \in DOMAIN recent : tag \in SplitSymptoms(recent[i].Symptoms)})

\* mutant of CommonSymptoms: a tag in exactly 30% of the window is common
CommonSymptoms_AtLeast(recent) ==
    {tag \in UNION {SplitSymptoms(recent[i].Symptoms) : i \in DOMAIN recent} :
        SymptomCount(recent, tag) * 10 >= Len(recent) * 3}

\* symptom_clusters[symptom_clusters > len(recent_cases) * 0.3]
CommonSymptoms(recent) ==
    {tag \in UNION {SplitSymptoms(recent[i].Symptoms) : i \in DOMAIN recent} :
        SymptomCount(recent, tag) * 10 > Len(recent) * 3}

\* common_symptoms.index[:3]: value_counts sorts by decreasing count and
\* leaves the order of equal counts open, so every choice of three (or of
\* all, when there are fewer) that respects the counts is possible
TopThreeChoices(recent, common) ==
    {T \in SUBSET common :
        /\ Cardinality(T) = Min(3, Cardinality(common))
        /\ \A a \in T, b \in common \ T :
              SymptomCount(recent, a) >= SymptomCount(recent, b)}

\* mutant of detect_outbreak_patterns: one common symptom is enough
detect_outbreak_patterns_OneEnough(cases_df) ==
    IF Len(cases_df) < MinOutbreakCases THEN {InsufficientData}
    ELSE LET recent == TailRows(cases_df, Min(OutbreakWindow, Len(cases_df)))
             common == CommonSymptoms(recent)
         IN  IF Cardinality(common) >= 1
             THEN {OutbreakAlert(T) : T \in TopThreeChoices(recent, common)}
             ELSE {NoOutbreak}

\* mutant of detect_outbreak_patterns: a history of exactly ten cases is
\* still too short
detect_outbreak_patterns_TenTooFew(cases_df) ==
    IF Len(cases_df) <= MinOutbreakCases THEN {InsufficientData}
    ELSE LET recent == TailRows(cases_df, Min(OutbreakWindow, Len(cases_df)))
             common == CommonSymptoms(recent)
         IN  IF Cardinality(common) >= 2
             THEN {OutbreakAlert(T) : T \in TopThreeChoices(recent, common)}
             ELSE {NoOutbreak}

\* the set of statuses the call can return (one, unless equal counts leave
\* the three named symptoms open)
detect_outbreak_patterns(cases_df) ==
    IF Len(cases_df) < MinOutbreakCases THEN {InsufficientData}
    ELSE LET recent == TailRows(cases_df, Min(OutbreakWindow, Len(cases_df)))
             common == CommonSymptoms(recent)
         IN  IF Cardinality(common) >= 2
             THEN {OutbreakAlert(T) : T \in TopThreeChoices(recent, common)}
             ELSE {NoOutbreak}

(***************************************************************************)
(* run_gpt and the advisory.  A JSON value is a pair <<type, text>>; a     *)
(* dict is a function from its keys.  The em dash of the source is         *)
(* written "--", the hyphen "-".                                           *)
(***************************************************************************)
EmDash == "--"

JStr(s) == <<"str", s>>

JNum(s) == <<"num", s>>

JNull == <<"null", "null">>

IsStr(v) == v[1] = "str"

\* d.get(key, default)
Get(d, key, default) == IF key \in DOMAIN d THEN d[key] ELSE JStr(default)

\* the record run_gpt returns when the text of the reply does not parse
ParsingIssueRecord ==
    [probable    |-> JStr("AI parsing issue"),
     possible    |-> JStr(EmDash),
     treatment   |-> JStr(EmDash),
     labs        |-> JStr(EmDash),
     confidence  |-> JStr("low"),
     patient_sms |-> JStr("Return if symptoms worsen.")]

\* the record the STI Diagnosis tab uses when run_gpt raises
AIErrorRecord ==
    [probable    |-> JStr("AI error"),
     possible    |-> JStr(EmDash),
     treatment   |-> JStr(EmDash),
     confidence  |-> JStr("low"),
     patient_sms |-> JStr("Return if symptoms worsen.")]

\* what the advisory provider does with one call: the client or the request
\* raises, or a reply text arrives whose outermost {...} is not JSON
\* (json = None) or is the JSON object json[1]
Raises == [raises |-> TRUE, json |-> None]

Unparseable == [raises |-> FALSE, json |-> None]

Reply(d) == [raises |-> FALSE, json |-> Some(d)]

\* run_gpt: raises, or returns a dict: the parsed object, whatever its keys
\* and value types, or ParsingIssueRecord when json.loads fails
run_gpt(outcome) ==
    IF outcome.raises THEN [raised |-> TRUE, dict |-> <<>>]
    ELSE IF outcome.json = None
         THEN [raised |-> FALSE, dict |-> ParsingIssueRecord]
         ELSE [raised |-> FALSE, dict |-> outcome.json[1]]

(***************************************************************************)
(* The run of the STI Diagnosis tab: helpers                               *)
(***************************************************************************)
\* "; ".join([p, q]).strip("; ") for texts that neither start nor end with
\* a blank or a semicolon
JoinStrip(p, q) ==
    IF p = "" THEN q ELSE IF q = "" THEN p ELSE p \o "; " \o q

\* merge_diag(d): "-" for an empty dict; str.join raises TypeError when
\* probable or possible is not a string
merge_diag(d) ==
    IF DOMAIN d = {} THEN [raised |-> FALSE, text |-> "-"]
    ELSE LET p == Get(d, "probable", "")
             q == Get(d, "possible", "")
         IN  IF IsStr(p) /\ IsStr(q)
             THEN [raised |-> FALSE, text |-> JoinStrip(p[2], q[2])]
             ELSE [raised |-> TRUE, text |-> ""]

ai_commentary(ai_dx, who_dx) ==
    IF ai_dx = EmDash \/ who_dx = EmDash
    THEN "AI could not generate interpretation."
    ELSE "AI suggests: " \o ai_dx \o ". WHO baseline: " \o who_dx
         \o ". Overlap noted; AI highlights potential nuances or severity."

\* who_result seen as a dict of strings
WhoDict(who) == [k \in DOMAIN who |-> JStr(who[k])]

\* ai_out["confidence"].capitalize() raises AttributeError when the value
\* is not a string
ConfidenceRaises(ai) ==
    "confidence" \in DOMAIN ai /\ ~IsStr(ai["confidence"])

Followup == "Partner treatment; condom advice; return if no improvement"

DefaultSms ==
    "Return if symptoms worsen. Take medication as prescribed. Complete the full course."

\* mutant of NewCase: the treatment of record is the advisory's when it has
\* one
NewCase_AdvisoryTreatment(id, ctx, who, tri, score, ai) ==
    [CaseID   |-> id,
     Sex      |-> ctx.sex,
     Pregnant |-> ctx.pregnant,
     HIV      |-> ctx.hiv,
     Symptoms |-> ctx.symptoms,
     WHO_SyndromicDiagnosis |-> merge_diag(WhoDict(who)).text,
     AI_SyndromicDiagnosis  |-> merge_diag(ai).text,
     AI_Commentary |-> ai_commentary(merge_diag(ai).text,
                                     merge_diag(WhoDict(who)).text),
     WHO_Treatment |-> Get(ai, "treatment", who.treatment)[2],
     AI_Treatment  |-> Get(ai, "treatment", "-"),
     WHO_Followup  |-> Followup,
     AI_Followup   |-> Followup,
     AI_Confidence |-> Get(ai, "confidence", "-"),
     Triage        |-> tri,
     Triage_Score  |-> score,
     SMS           |-> Get(ai, "patient_sms", DefaultSms)]

\* new_case (Timestamp, PatientID, Age, Occupation and Risks are free form
\* inputs no computation reads; they are left out)
NewCase(id, ctx, who, tri, score, ai) ==
    [CaseID   |-> id,
     Sex      |-> ctx.sex,
     Pregnant |-> ctx.pregnant,
     HIV      |-> ctx.hiv,
     Symptoms |-> ctx.symptoms,
     WHO_SyndromicDiagnosis |-> merge_diag(WhoDict(who)).text,
     AI_SyndromicDiagnosis  |-> merge_diag(ai).text,
     AI_Commentary |-> ai_commentary(merge_diag(ai).text,
                                     merge_diag(WhoDict(who)).text),
     WHO_Treatment |-> who.treatment,
     AI_Treatment  |-> Get(ai, "treatment", "-"),
     WHO_Followup  |-> Followup,
     AI_Followup   |-> Followup,
     AI_Confidence |-> Get(ai, "confidence", "-"),
     Triage        |-> tri,
     Triage_Score  |-> score,
     SMS           |-> Get(ai, "patient_sms", DefaultSms)]

\* mutant of NextCaseCounter: the counter is left as it is
NextCaseCounter_Stuck(n) == n

\* st.session_state["case_counter"] += 1
NextCaseCounter(n) == n + 1

\* mutant of AppendCase: the new record is put in front
AppendCase_InFront(log, rec) == <<rec>> \o log

\* st.session_state["cases"].append(new_case)
AppendCase(log, rec) == Append(log, rec)

(***************************************************************************)
(* The run of the STI Diagnosis tab: what it puts on the page, in order    *)
(***************************************************************************)
ExceptionAt(place) == [kind |-> "exception", at |-> place]

\* {"Low":"40%","Medium":"70%","High":"90%"}.get(conf, conf)
ConfidencePct(text) ==
    CASE text = "low" -> "40%"
      [] text = "medium" -> "70%"
      [] text = "high" -> "90%"
      [] OTHER -> text

TriageCard(tri, score) == [kind |-> "triage", level |-> tri, score |-> score]

ComparisonTable(who, ai) ==
    [kind          |-> "comparison",
     who_dx        |-> merge_diag(WhoDict(who)).text,
     who_treatment |-> who.treatment,
     ai_dx         |-> merge_diag(ai).text,
     ai_treatment  |-> Get(ai, "treatment", "-")]

\* the elements from the triage card on (lines 855-921), given the advisory
\* dict in use
DisplayFrom(who, tri, score, ai, csv_ok) ==
    IF merge_diag(ai).raised THEN <<ExceptionAt("merge_diag")>>
    ELSE <<TriageCard(tri, score), ComparisonTable(who, ai)>>
         \o (IF ConfidenceRaises(ai) THEN <<ExceptionAt("confidence")>>
             ELSE (IF "confidence" \in DOMAIN ai
                   THEN <<[kind |-> "confidence",
                           text |-> ConfidencePct(ai["confidence"][2])]>>
                   ELSE <<>>)
                  \o <<[kind |-> "sms",
                        text |-> Get(ai, "patient_sms", DefaultSms)]>>
                  \o (IF csv_ok
                      THEN <<[kind |-> "success",
                              text |-> "Case saved successfully!"]>>
                      ELSE <<ExceptionAt("to_csv")>>))

\* mutant of RunScreen: the call of run_gpt is not guarded, its exception
\* ends the run
RunScreen_AdvisoryUnguarded(who, tri, score, g, csv_ok) ==
    IF g.raised THEN <<ExceptionAt("run_gpt")>>
    ELSE <<[kind |-> "success", text |-> "AI Mode (GPT-3.5) completed"]>>
         \o DisplayFrom(who, tri, score, g.dict, csv_ok)

\* the page of a run: the notice of the advisory call first, then the
\* deterministic outputs, then what depends on the advisory and on the save
RunScreen(who, tri, score, g, csv_ok) ==
    IF g.raised
    THEN <<[kind |-> "error", text |-> "AI error"]>>
         \o DisplayFrom(who, tri, score, AIErrorRecord, csv_ok)
    ELSE <<[kind |-> "success", text |-> "AI Mode (GPT-3.5) completed"]>>
         \o DisplayFrom(who, tri, score, g.dict, csv_ok)

\* the run ends in an uncaught exception before the record is built
RunAborts(ai) == merge_diag(ai).raised \/ ConfidenceRaises(ai)

(***************************************************************************)
(* Inputs of the pure-function specifications                              *)
(***************************************************************************)
\* number of half-degree steps above 37.0 degrees among the temperatures
TempSteps == 5

\* temperatures in tenths of a degree: not measured, 0.0, 37.0 to 39.5 by
\* half degrees, and the tenths just below 38 and 39 degrees
TempInputs ==
    {None} \cup {Some(t) : t \in {0, 379, 389}
                                 \cup {370 + 5 * k : k \in 0 .. TempSteps}}

\* texts of the BP field: the default "120/80", readings on both sides of 90
\* and 100, a reading of zero, a text with blanks, and texts that do not match
BpInputs ==
    { <<>>,
      <<"1", "2", "0", "/", "8", "0">>,
      <<"0", "/", "0">>,
      <<"8", "5", "/", "5", "0">>,
      <<"8", "9", "/", "6", "0">>,
      <<"9", "0", "/", "6", "0">>,
      <<" ", "9", "9", " ", "/", " ", "6", "5", " ">>,
      <<"1", "0", "0", "/", "7", "0">>,
      <<"1", "2", "0">>,
      <<"n", "/", "a">> }

\* symptom lists handed to the scorer: the severe tags and one other tag
ScoreSymptomTags == severe_symptoms \cup {"Vaginal discharge"}

NoResult == [probable |-> "", possible |-> "", treatment |-> "", labs |-> ""]

\* the csv file diagnosis_cases.csv: absent, or its rows
NoFile == [exists |-> FALSE, rows |-> <<>>]

NoStatus == [kind |-> "", named |-> {}]

NoAdvisory == [raised |-> FALSE, dict |-> <<>>]

\* st.session_state of a second browser session: not opened yet
NoPeer == [started |-> FALSE, cases |-> <<>>, case_counter |-> 1, runs |-> 0]

\* the pure-function specifications run no session: nobody is logged in, the
\* log is empty and nothing is on the page
SessionNotStarted ==
    /\ authenticated = FALSE
    /\ cases = <<>>
    /\ case_counter = 1
    /\ csv = NoFile
    /\ outbreak_status = NoStatus
    /\ ai_out = NoAdvisory
    /\ screen = <<>>
    /\ case_inputs = <<>>

(***************************************************************************)
(* SpecClassify: who_sti_diagnosis applied to every sex and symptom set    *)
(***************************************************************************)
InitClassify ==
    /\ sex \in SexOptions
    /\ pregnant \in (IF sex = "Female" THEN PregnantOptions ELSE {"No"})
    /\ symptoms \in SUBSET SymptomTags
    /\ hiv = "Unknown"
    /\ temp_val = Some(370)
    /\ bp = <<"1", "2", "0", "/", "8", "0">>
    /\ sbp = parse_bp(bp)[1]
    /\ dbp = parse_bp(bp)[2]
    /\ pain = 3
    /\ who_result = NoResult
    /\ triage_score = None
    /\ triage = ""
    /\ pc = "ready"
    /\ hr_val = Some(80)
    /\ vital_errors = <<>>
    /\ SessionNotStarted
    /\ peer_session = NoPeer

Classify ==
    /\ pc = "ready"
    /\ who_result' = who_sti_diagnosis(sex, pregnant, symptoms)
    /\ pc' = "classified"
    /\ UNCHANGED <<sex, pregnant, hiv, temp_val, bp, sbp, dbp, pain, symptoms,
                   triage_score, triage>>
    /\ UNCHANGED sessionVars
    /\ UNCHANGED vitalVars
    /\ UNCHANGED peer_session

NextClassify == Classify

SpecClassify == InitClassify /\ [][NextClassify]_vars

(***************************************************************************)
(* SpecVariants: who_sti_diagnosis of src/app.py applied to every sex and  *)
(* symptom set                                                             *)
(***************************************************************************)
\* who_result = who_sti_diagnosis(sex,pregnant,symptoms) in app.py
ClassifyApp ==
    /\ pc = "ready"
    /\ who_result' = app_who_sti_diagnosis(sex, pregnant, symptoms)
    /\ pc' = "classified_app"
    /\ UNCHANGED <<sex, pregnant, hiv, temp_val, bp, sbp, dbp, pain, symptoms,
                   triage_score, triage>>
    /\ UNCHANGED sessionVars
    /\ UNCHANGED vitalVars
    /\ UNCHANGED peer_session

NextVariants == ClassifyApp

SpecVariants == InitClassify /\ [][NextVariants]_vars

(***************************************************************************)
(* SpecScore: calculate_triage_score and triage_level applied to every     *)
(* context; the systolic value is the one parse_bp reads from the BP text  *)
(***************************************************************************)
InitScore ==
    /\ sex \in SexOptions
    /\ pregnant \in (IF sex = "Female" THEN PregnantOptions ELSE {"No"})
    /\ symptoms \in SUBSET ScoreSymptomTags
    /\ hiv \in HivOptions
    /\ temp_val \in TempInputs
    /\ bp \in BpInputs
    /\ sbp = parse_bp(bp)[1]
    /\ dbp = parse_bp(bp)[2]
    /\ pain \in PainLevels
    /\ who_result = NoResult
    /\ triage_score = None
    /\ triage = ""
    /\ pc = "ready"
    /\ hr_val = Some(80)
    /\ vital_errors = <<>>
    /\ SessionNotStarted
    /\ peer_session = NoPeer

Score ==
    /\ pc = "ready"
    /\ triage' = triage_level(temp_val, sbp, pain, pregnant, hiv, symptoms)
    /\ triage_score' = Some(calculate_triage_score(temp_val, sbp, pain,
                                                   pregnant, hiv, symptoms))
    /\ pc' = "scored"
    /\ UNCHANGED <<sex, pregnant, hiv, temp_val, bp, sbp, dbp, pain, symptoms,
                   who_result>>
    /\ UNCHANGED sessionVars
    /\ UNCHANGED vitalVars
    /\ UNCHANGED peer_session

NextScore == Score

SpecScore == InitScore /\ [][NextScore]_vars

(***************************************************************************)
(* SpecParse: parse_bp applied to every text of the BP field up to a       *)
(* length, over digits, the slash, the blank and one other character       *)
(***************************************************************************)
MaxTextLen == 5

ParseAlphabet == {"0", "1", "/", " ", "x"}

ParseInputs ==
    UNION {[1 .. n -> ParseAlphabet] : n \in 0 .. MaxTextLen}

InitParse ==
    /\ bp \in ParseInputs
    /\ sbp = None
    /\ dbp = None
    /\ sex = "Female"
    /\ pregnant = "No"
    /\ hiv = "Unknown"
    /\ temp_val = Some(370)
    /\ pain = 3
    /\ symptoms = {}
    /\ who_result = NoResult
    /\ triage_score = None
    /\ triage = ""
    /\ pc = "ready"
    /\ hr_val = Some(80)
    /\ vital_errors = <<>>
    /\ SessionNotStarted
    /\ peer_session = NoPeer

\* sbp,dbp = parse_bp(bp)
ParseBp ==
    /\ pc = "ready"
    /\ sbp' = parse_bp(bp)[1]
    /\ dbp' = parse_bp(bp)[2]
    /\ pc' = "parsed"
    /\ UNCHANGED <<sex, pregnant, hiv, temp_val, bp, pain, symptoms,
                   who_result, triage_score, triage>>
    /\ UNCHANGED sessionVars
    /\ UNCHANGED vitalVars
    /\ UNCHANGED peer_session

NextParse == ParseBp

SpecParse == InitParse /\ [][NextParse]_vars

(***************************************************************************)
(* SpecOutbreak: detect_outbreak_patterns applied to case histories: a     *)
(* block of cases with one symptom set followed by a block with another    *)
(***************************************************************************)
MaxHistory == 11

OutbreakTags ==
    {"Vaginal discharge", "Itching/burning", "Dysuria (painful urination)",
     "Genital ulcer(s)"}

\* n cases that all carry the symptom set S
Block(n, S) == [i \in 1 .. n |-> [Symptoms |-> S]]

HistoryInputs ==
    {Block(n1, A) \o Block(n2, B) :
        n1 \in 0 .. MaxHistory, n2 \in 0 .. MaxHistory,
        A \in SUBSET OutbreakTags \ {{}}, B \in SUBSET OutbreakTags \ {{}}}

InitOutbreak ==
    /\ cases \in {h \in HistoryInputs : Len(h) <= MaxHistory}
    /\ authenticated = FALSE
    /\ case_counter = Len(cases) + 1
    /\ csv = NoFile
    /\ outbreak_status = NoStatus
    /\ ai_out = NoAdvisory
    /\ screen = <<>>
    /\ case_inputs = <<>>
    /\ sex = "Female"
    /\ pregnant = "No"
    /\ hiv = "Unknown"
    /\ temp_val = Some(370)
    /\ bp = <<"1", "2", "0", "/", "8", "0">>
    /\ sbp = parse_bp(bp)[1]
    /\ dbp = parse_bp(bp)[2]
    /\ pain = 3
    /\ symptoms = {}
    /\ who_result = NoResult
    /\ triage_score = None
    /\ triage = ""
    /\ pc = "ready"
    /\ hr_val = Some(80)
    /\ vital_errors = <<>>
    /\ peer_session = NoPeer

\* outbreak_status = detect_outbreak_patterns(df)
DetectOutbreak ==
    /\ pc = "ready"
    /\ outbreak_status' \in detect_outbreak_patterns(cases)
    /\ pc' = "detected"
    /\ UNCHANGED <<sex, pregnant, hiv, temp_val, bp, sbp, dbp, pain, symptoms,
                   who_result, triage_score, triage>>
    /\ UNCHANGED <<authenticated, cases, case_counter, csv, ai_out, screen,
                   case_inputs>>
    /\ UNCHANGED vitalVars
    /\ UNCHANGED peer_session

NextOutbreak == DetectOutbreak

SpecOutbreak == InitOutbreak /\ [][NextOutbreak]_vars

(***************************************************************************)
(* SpecWindow: detect_outbreak_patterns applied to histories longer than   *)
(* the window: older cases followed by fifty cases in two blocks, and      *)
(* short histories that fit in the window                                  *)
(***************************************************************************)
\* largest number of cases older than the window
MaxOlder == 2

WindowTagSets ==
    { {"Vaginal discharge", "Itching/burning"},
      {"Genital ulcer(s)"},
      {"Dysuria (painful urination)", "Genital ulcer(s)"} }

\* lengths of the first block of the fifty most recent cases: none, 30% of
\* the window, one more, and the rest of such a split
FirstBlockLengths == {0, 15, 16, 34, 35}

FullWindows ==
    {Block(n, B) \o Block(OutbreakWindow - n, C) :
        n \in FirstBlockLengths, B \in WindowTagSets, C \in WindowTagSets}

ShortHistories ==
    {Block(n, B) \o Block(3, C) :
        n \in {6, 7, 9}, B \in WindowTagSets, C \in WindowTagSets}

OlderCases == {Block(o, A) : o \in 0 .. MaxOlder, A \in WindowTagSets}

WindowHistories ==
    ShortHistories \cup {old \o w : old \in OlderCases, w \in FullWindows}

InitWindow ==
    /\ cases \in WindowHistories
    /\ authenticated = FALSE
    /\ case_counter = Len(cases) + 1
    /\ csv = NoFile
    /\ outbreak_status = NoStatus
    /\ ai_out = NoAdvisory
    /\ screen = <<>>
    /\ case_inputs = <<>>
    /\ sex = "Female"
    /\ pregnant = "No"
    /\ hiv = "Unknown"
    /\ temp_val = Some(370)
    /\ bp = <<"1", "2", "0", "/", "8", "0">>
    /\ sbp = parse_bp(bp)[1]
    /\ dbp = parse_bp(bp)[2]
    /\ pain = 3
    /\ symptoms = {}
    /\ who_result = NoResult
    /\ triage_score = None
    /\ triage = ""
    /\ pc = "ready"
    /\ hr_val = Some(80)
    /\ vital_errors = <<>>
    /\ peer_session = NoPeer

NextWindow == DetectOutbreak

SpecWindow == InitWindow /\ [][NextWindow]_vars

(***************************************************************************)
(* SpecVitals: the input validation of the STI Diagnosis form applied to   *)
(* readings on both sides of every range bound, to zero and to fields that *)
(* hold no number                                                          *)
(***************************************************************************)
\* temperatures (tenths of a degree) and heart rates the fields can hold
VitalTempInputs == {None} \cup {Some(t) : t \in {0, 349, 350, 370, 420, 421}}

VitalHrInputs == {None} \cup {Some(h) : h \in {0, 39, 40, 80, 180, 181}}

VitalSbpInputs == {0, 59, 60, 120, 250, 251}

VitalDbpInputs == {0, 39, 40, 80, 150, 151}

\* str(n) of a natural number, as the user types it
RECURSIVE DigitsOf(_)
DigitsOf(n) ==
    IF n < 10 THEN <<CHOOSE c \in Digits : DigitVal(c) = n>>
    ELSE Append(DigitsOf(n \div 10), CHOOSE c \in Digits : DigitVal(c) = n % 10)

\* texts of the BP field: empty, or systolic "/" diastolic
VitalBpInputs ==
    {<<>>} \cup {DigitsOf(s) \o <<"/">> \o DigitsOf(d) :
                    s \in VitalSbpInputs, d \in VitalDbpInputs}

InitVitals ==
    /\ temp_val \in VitalTempInputs
    /\ hr_val \in VitalHrInputs
    /\ bp \in VitalBpInputs
    /\ sbp = None
    /\ dbp = None
    /\ vital_errors = <<>>
    /\ sex = "Female"
    /\ pregnant = "No"
    /\ hiv = "Unknown"
    /\ pain = 3
    /\ symptoms = {}
    /\ who_result = NoResult
    /\ triage_score = None
    /\ triage = ""
    /\ pc = "ready"
    /\ SessionNotStarted
    /\ peer_session = NoPeer

\* sbp,dbp = parse_bp(bp); vital_errors = validate_vitals(temp_val, hr_val,
\* (sbp, dbp))
ValidateVitals ==
    /\ pc = "ready"
    /\ sbp' = parse_bp(bp)[1]
    /\ dbp' = parse_bp(bp)[2]
    /\ vital_errors' = validate_vitals(temp_val, hr_val, parse_bp(bp))
    /\ pc' = "validated"
    /\ UNCHANGED <<sex, pregnant, hiv, temp_val, bp, pain, symptoms, hr_val,
                   who_result, triage_score, triage>>
    /\ UNCHANGED sessionVars
    /\ UNCHANGED peer_session

NextVitals == ValidateVitals

SpecVitals == InitVitals /\ [][NextVitals]_vars

(***************************************************************************)
(* Spec: one browser session of the dashboard.  Every action is one rerun  *)
(* of the script: a click or a tab the user looks at.  pc tells what the   *)
(* last rerun was: "idle" (no diagnosis run), "warned" (run refused, no    *)
(* symptom selected), "completed" or "crashed" (uncaught exception).       *)
(***************************************************************************)
MaxCases == 2

\* form inputs of the runs: temperature, BP text, pain and the selections
SessionContexts ==
    { [sex |-> "Female", pregnant |-> "No", hiv |-> "Unknown",
       temp_val |-> Some(370), bp |-> <<"1", "2", "0", "/", "8", "0">>,
       hr_val |-> Some(80), pain |-> 8, symptoms |-> {"Vaginal discharge"}],
      [sex |-> "Male", pregnant |-> "No", hiv |-> "Negative",
       temp_val |-> Some(395), bp |-> <<"8", "5", "/", "5", "0">>,
       hr_val |-> Some(190), pain |-> 9, symptoms |-> {"Testicular/scrotal pain/swelling"}],
      [sex |-> "Male", pregnant |-> "No", hiv |-> "Unknown",
       temp_val |-> None, bp |-> <<>>,
       hr_val |-> None, pain |-> 3, symptoms |-> {}] }

FullAdvisory ==
    [probable    |-> JStr("Cervicitis"),
     possible    |-> JStr("Chlamydia"),
     treatment   |-> JStr("Azithromycin 1g PO once"),
     labs        |-> JStr("NAAT for GC/CT"),
     confidence  |-> JStr("high"),
     patient_sms |-> JStr("Take medication as prescribed.")]

\* replies whose {...} is a JSON object: complete, empty, with fields
\* missing, with a number as confidence, with null as probable
AdvisoryDicts ==
    { FullAdvisory,
      <<>>,
      [probable |-> JStr("Cervicitis")],
      [FullAdvisory EXCEPT !.confidence = JNum("0.9")],
      [FullAdvisory EXCEPT !.probable = JNull] }

AdvisoryOutcomes == {Raises, Unparseable} \cup {Reply(d) : d \in AdvisoryDicts}

\* pd.read_csv(...).to_dict("records"): an empty text cell is read as NaN
ReadCell(text) == IF text = "" THEN "nan" ELSE text

ReadRow(r) ==
    [r EXCEPT !.WHO_SyndromicDiagnosis = ReadCell(@),
              !.AI_SyndromicDiagnosis = ReadCell(@),
              !.WHO_Treatment = ReadCell(@)]

LoadCsv(file) ==
    IF file.exists THEN [i \in DOMAIN file.rows |-> ReadRow(file.rows[i])]
    ELSE <<>>

\* pd.DataFrame(cases).to_csv(SAVE_PATH): the file is rewritten with the
\* whole in-memory list
WriteCsv(log) == [exists |-> TRUE, rows |-> log]

\* the row an earlier session left in the file
EarlierRow ==
    LET ctx == CHOOSE c \in SessionContexts : c.symptoms = {"Vaginal discharge"}
    IN  NewCase(1, ctx, who_sti_diagnosis(ctx.sex, ctx.pregnant, ctx.symptoms),
                triage_level(ctx.temp_val, parse_bp(ctx.bp)[1], ctx.pain,
                             ctx.pregnant, ctx.hiv, ctx.symptoms),
                calculate_triage_score(ctx.temp_val, parse_bp(ctx.bp)[1],
                                       ctx.pain, ctx.pregnant, ctx.hiv,
                                       ctx.symptoms),
                ParsingIssueRecord)

InitialFiles == {NoFile, WriteCsv(<<EarlierRow>>)}

Init ==
    /\ authenticated = FALSE
    /\ csv \in InitialFiles
    /\ cases = LoadCsv(csv)
    /\ case_counter = Len(cases) + 1
    /\ case_inputs = <<>>
    /\ outbreak_status = NoStatus
    /\ ai_out = NoAdvisory
    /\ screen = <<>>
    /\ sex = "Female"
    /\ pregnant = "No"
    /\ hiv = "Unknown"
    /\ temp_val = Some(370)
    /\ bp = <<"1", "2", "0", "/", "8", "0">>
    /\ sbp = parse_bp(bp)[1]
    /\ dbp = parse_bp(bp)[2]
    /\ pain = 3
    /\ symptoms = {}
    /\ who_result = NoResult
    /\ triage_score = None
    /\ triage = ""
    /\ pc = "idle"
    /\ hr_val = Some(80)
    /\ vital_errors = <<>>
    /\ peer_session = NoPeer

formVars == <<sex, pregnant, hiv, temp_val, bp, sbp, dbp, pain, symptoms,
              hr_val, vital_errors>>

\* a rerun in which the Run STI Diagnosis button is not pressed
NoDiagnosisRun ==
    /\ who_result' = NoResult
    /\ triage_score' = None
    /\ triage' = ""
    /\ ai_out' = NoAdvisory
    /\ pc' = "idle"

Login ==
    /\ ~authenticated
    /\ \E ok \in BOOLEAN :
          /\ authenticated' = ok
          /\ screen' = IF ok THEN <<>>
                       ELSE <<[kind |-> "error",
                               text |-> "Invalid username or password"]>>
    /\ NoDiagnosisRun
    /\ UNCHANGED formVars
    /\ UNCHANGED <<cases, case_counter, csv, outbreak_status, case_inputs>>
    /\ UNCHANGED peer_session

Logout ==
    /\ authenticated
    /\ authenticated' = FALSE
    /\ screen' = <<>>
    /\ NoDiagnosisRun
    /\ UNCHANGED formVars
    /\ UNCHANGED <<cases, case_counter, csv, outbreak_status, case_inputs>>
    /\ UNCHANGED peer_session

\* sidebar, System Status
ViewSidebar ==
    /\ authenticated
    /\ IF cases # <<>>
       THEN /\ outbreak_status' \in detect_outbreak_patterns(cases)
            /\ screen' = <<[kind |-> "metric", total |-> Len(cases)],
                           [kind |-> "outbreak", status |-> outbreak_status']>>
       ELSE /\ outbreak_status' = NoStatus
            /\ screen' = <<[kind |-> "info", text |-> "No cases yet"]>>
    /\ NoDiagnosisRun
    /\ UNCHANGED formVars
    /\ UNCHANGED <<authenticated, cases, case_counter, csv, case_inputs>>
    /\ UNCHANGED peer_session

TriageFilters == {{}, {"RED"}, {"YELLOW", "GREEN"}}

\* Case History tab: df is a copy of the log, filtered by triage level
ViewCaseHistory ==
    /\ authenticated
    /\ \E triage_filter \in TriageFilters :
          LET Keep(r) == triage_filter = {} \/ r.Triage \in triage_filter
              df == SelectSeq(cases, Keep)
          IN  screen' = IF cases # <<>>
                        THEN <<[kind |-> "dataframe", rows |-> df,
                                displaying |-> Len(df)]>>
                        ELSE <<[kind |-> "caption", text |-> "No cases yet."]>>
    /\ NoDiagnosisRun
    /\ UNCHANGED formVars
    /\ UNCHANGED <<authenticated, cases, case_counter, csv, outbreak_status,
                   case_inputs>>
    /\ UNCHANGED peer_session

\* Export tab: the complete dataset and the HMIS columns of a copy of the log
ViewExport ==
    /\ authenticated
    /\ screen' = IF cases # <<>>
                 THEN <<[kind |-> "download", rows |-> cases],
                        [kind |-> "download",
                         rows |-> [i \in DOMAIN cases |->
                                     [Sex      |-> cases[i].Sex,
                                      Symptoms |-> cases[i].Symptoms,
                                      Triage   |-> cases[i].Triage]]]>>
                 ELSE <<>>
    /\ NoDiagnosisRun
    /\ UNCHANGED formVars
    /\ UNCHANGED <<authenticated, cases, case_counter, csv, outbreak_status,
                   case_inputs>>
    /\ UNCHANGED peer_session

\* Analytics tab: key indicators of a copy of the log
ViewAnalytics ==
    /\ authenticated
    /\ screen' = IF cases # <<>>
                 THEN <<[kind   |-> "metric", total |-> Len(cases),
                         urgent |-> Cardinality({i \in DOMAIN cases :
                                                   cases[i].Triage = "RED"})]>>
                 ELSE <<>>
    /\ NoDiagnosisRun
    /\ UNCHANGED formVars
    /\ UNCHANGED <<authenticated, cases, case_counter, csv, outbreak_status,
                   case_inputs>>
    /\ UNCHANGED peer_session

\* the Run STI Diagnosis button, with the form filled as ctx, the advisory
\* provider behaving as adv and the write of the CSV file succeeding or not
RunDiagnosis ==
    /\ authenticated
    /\ Len(cases) < MaxCases
    /\ \E ctx \in SessionContexts, adv \in AdvisoryOutcomes, csv_ok \in BOOLEAN :
          LET b     == parse_bp(ctx.bp)
              who   == who_sti_diagnosis(ctx.sex, ctx.pregnant, ctx.symptoms)
              tri   == triage_level(ctx.temp_val, b[1], ctx.pain, ctx.pregnant,
                                    ctx.hiv, ctx.symptoms)
              score == calculate_triage_score(ctx.temp_val, b[1], ctx.pain,
                                              ctx.pregnant, ctx.hiv,
                                              ctx.symptoms)
              g     == run_gpt(adv)
              ai    == IF g.raised THEN AIErrorRecord ELSE g.dict
              rec   == NewCase(case_counter, ctx, who, tri, score, ai)
          IN  /\ sex' = ctx.sex /\ pregnant' = ctx.pregnant /\ hiv' = ctx.hiv
              /\ temp_val' = ctx.temp_val /\ bp' = ctx.bp
              /\ sbp' = b[1] /\ dbp' = b[2]
              /\ hr_val' = ctx.hr_val
              /\ vital_errors' = validate_vitals(ctx.temp_val, ctx.hr_val, b)
              /\ pain' = ctx.pain /\ symptoms' = ctx.symptoms
              /\ IF ctx.symptoms = {}
                 THEN /\ screen' = <<[kind |-> "warning",
                                      text |-> "Please select at least one STI symptom"]>>
                      /\ who_result' = NoResult
                      /\ triage_score' = None
                      /\ triage' = ""
                      /\ ai_out' = NoAdvisory
                      /\ pc' = "warned"
                      /\ UNCHANGED <<cases, case_counter, csv, case_inputs>>
                 ELSE /\ who_result' = who
                      /\ triage' = tri
                      /\ triage_score' = Some(score)
                      /\ ai_out' = [raised |-> g.raised, dict |-> ai]
                      /\ screen' = RunScreen(who, tri, score, g, csv_ok)
                      /\ IF RunAborts(ai)
                         THEN /\ pc' = "crashed"
                              /\ UNCHANGED <<cases, case_counter, csv,
                                             case_inputs>>
                         ELSE /\ cases' = AppendCase(cases, rec)
                              /\ case_counter' = NextCaseCounter(case_counter)
                              /\ case_inputs' = Append(case_inputs,
                                                   [ctx |-> ctx, adv |-> adv])
                              /\ csv' = IF csv_ok THEN WriteCsv(cases') ELSE csv
                              /\ pc' = IF csv_ok THEN "completed" ELSE "crashed"
    /\ UNCHANGED <<authenticated, outbreak_status>>
    /\ UNCHANGED peer_session

Next ==
    \/ Login
    \/ Logout
    \/ ViewSidebar
    \/ ViewCaseHistory
    \/ ViewExport
    \/ ViewAnalytics
    \/ RunDiagnosis

Spec == Init /\ [][Next]_vars

(***************************************************************************)
(* SpecTwoSessions: two browser sessions of the dashboard on one server.   *)
(* Each has its own st.session_state; both read and write the one file     *)
(* diagnosis_cases.csv.  The first session is the one of Spec; of the      *)
(* second only the case list and the counter are kept, with the number of  *)
(* its completed runs.                                                     *)
(***************************************************************************)
\* largest number of completed runs of each of the two sessions
MaxRunsEach == 1

\* the second session opens the page: State Init loads the file as it is
PeerOpens ==
    /\ ~peer_session.started
    /\ peer_session' = [started      |-> TRUE,
                        cases        |-> LoadCsv(csv),
                        case_counter |-> Len(LoadCsv(csv)) + 1,
                        runs         |-> 0]
    /\ UNCHANGED <<who_result, triage_score, triage, pc>>
    /\ UNCHANGED formVars
    /\ UNCHANGED sessionVars

\* form inputs and advisory outcomes of the runs of the second session: a
\* run that is refused, runs that complete, a run that ends in an exception
PeerContexts == {c \in SessionContexts : c.sex = "Female" \/ c.symptoms = {}}

PeerAdvisoryOutcomes ==
    {Raises, Reply(FullAdvisory),
     Reply([FullAdvisory EXCEPT !.confidence = JNum("0.9")])}

\* the Run STI Diagnosis button in the second session
PeerRunDiagnosis ==
    /\ peer_session.started
    /\ peer_session.runs < MaxRunsEach
    /\ \E ctx \in PeerContexts, adv \in PeerAdvisoryOutcomes,
          csv_ok \in BOOLEAN :
          LET b     == parse_bp(ctx.bp)
              who   == who_sti_diagnosis(ctx.sex, ctx.pregnant, ctx.symptoms)
              tri   == triage_level(ctx.temp_val, b[1], ctx.pain, ctx.pregnant,
                                    ctx.hiv, ctx.symptoms)
              score == calculate_triage_score(ctx.temp_val, b[1], ctx.pain,
                                              ctx.pregnant, ctx.hiv,
                                              ctx.symptoms)
              g     == run_gpt(adv)
              ai    == IF g.raised THEN AIErrorRecord ELSE g.dict
              rec   == NewCase(peer_session.case_counter, ctx, who, tri,
                               score, ai)
          IN  IF ctx.symptoms = {} \/ RunAborts(ai)
              THEN UNCHANGED <<peer_session, csv>>
              ELSE /\ peer_session' =
                         [peer_session EXCEPT
                             !.cases = AppendCase(@, rec),
                             !.case_counter = NextCaseCounter(@),
                             !.runs = @ + 1]
                   /\ csv' = IF csv_ok THEN WriteCsv(peer_session'.cases)
                             ELSE csv
    /\ UNCHANGED <<who_result, triage_score, triage, pc>>
    /\ UNCHANGED formVars
    /\ UNCHANGED <<authenticated, cases, case_counter, outbreak_status,
                   ai_out, screen, case_inputs>>

\* the Run STI Diagnosis button in the first session
FirstRunDiagnosis ==
    /\ Len(case_inputs) < MaxRunsEach
    /\ RunDiagnosis

NextTwoSessions ==
    \/ Login
    \/ FirstRunDiagnosis
    \/ PeerOpens
    \/ PeerRunDiagnosis

SpecTwoSessions == Init /\ [][NextTwoSessions]_vars

(***************************************************************************)
(* LiveSpec: the diagnosis run with the call to the advisory provider in   *)
(* flight.  pc is "calling" while run_gpt waits in                         *)
(* client.chat.completions.create, "returned" once the call has returned   *)
(* or raised.                                                              *)
(***************************************************************************)
\* the form as the run reads it
FormContext ==
    [sex |-> sex, pregnant |-> pregnant, hiv |-> hiv, temp_val |-> temp_val,
     bp |-> bp, hr_val |-> hr_val, pain |-> pain, symptoms |-> symptoms]

\* the button is pressed: lines 822-830, then run_gpt sends its request
StartDiagnosis ==
    /\ authenticated
    /\ pc \notin {"calling", "returned"}
    /\ Len(cases) < MaxCases
    /\ \E ctx \in SessionContexts :
          LET b == parse_bp(ctx.bp)
          IN  /\ sex' = ctx.sex /\ pregnant' = ctx.pregnant /\ hiv' = ctx.hiv
              /\ temp_val' = ctx.temp_val /\ bp' = ctx.bp
              /\ sbp' = b[1] /\ dbp' = b[2]
              /\ hr_val' = ctx.hr_val
              /\ vital_errors' = validate_vitals(ctx.temp_val, ctx.hr_val, b)
              /\ pain' = ctx.pain /\ symptoms' = ctx.symptoms
              /\ IF ctx.symptoms = {}
                 THEN /\ screen' = <<[kind |-> "warning",
                                      text |-> "Please select at least one STI symptom"]>>
                      /\ who_result' = NoResult
                      /\ triage_score' = None
                      /\ triage' = ""
                      /\ pc' = "warned"
                 ELSE /\ screen' = <<>>
                      /\ who_result' = who_sti_diagnosis(ctx.sex, ctx.pregnant,
                                                         ctx.symptoms)
                      /\ triage' = triage_level(ctx.temp_val, b[1], ctx.pain,
                                                ctx.pregnant, ctx.hiv,
                                                ctx.symptoms)
                      /\ triage_score' =
                            Some(calculate_triage_score(ctx.temp_val, b[1],
                                     ctx.pain, ctx.pregnant, ctx.hiv,
                                     ctx.symptoms))
                      /\ pc' = "calling"
    /\ ai_out' = NoAdvisory
    /\ UNCHANGED <<authenticated, cases, case_counter, csv, outbreak_status,
                   case_inputs>>
    /\ UNCHANGED peer_session

\* the provider answers or the call raises: lines 432-443 and 834-838.
\* The call is made with no timeout, so nothing in the code makes this step
\* happen.
AdvisoryReturns ==
    /\ pc = "calling"
    /\ \E adv \in AdvisoryOutcomes :
          LET g == run_gpt(adv)
          IN  ai_out' = [raised  |-> g.raised,
                         dict    |-> IF g.raised THEN AIErrorRecord ELSE g.dict,
                         outcome |-> adv]
    /\ pc' = "returned"
    /\ UNCHANGED <<who_result, triage_score, triage, screen>>
    /\ UNCHANGED formVars
    /\ UNCHANGED <<authenticated, cases, case_counter, csv, outbreak_status,
                   case_inputs>>
    /\ UNCHANGED peer_session

\* the rest of the run: lines 840-921
FinishDiagnosis ==
    /\ pc = "returned"
    /\ \E csv_ok \in BOOLEAN :
          LET ai  == ai_out.dict
              rec == NewCase(case_counter, FormContext, who_result, triage,
                             triage_score[1], ai)
          IN  /\ screen' = RunScreen(who_result, triage, triage_score[1],
                                     [raised |-> ai_out.raised, dict |-> ai],
                                     csv_ok)
              /\ ai_out' = [raised |-> ai_out.raised, dict |-> ai]
              /\ IF RunAborts(ai)
                 THEN /\ pc' = "crashed"
                      /\ UNCHANGED <<cases, case_counter, csv, case_inputs>>
                 ELSE /\ cases' = AppendCase(cases, rec)
                      /\ case_counter' = NextCaseCounter(case_counter)
                      /\ case_inputs' = Append(case_inputs,
                                           [ctx |-> FormContext,
                                            adv |-> ai_out.outcome])
                      /\ csv' = IF csv_ok THEN WriteCsv(cases') ELSE csv
                      /\ pc' = IF csv_ok THEN "completed" ELSE "crashed"
    /\ UNCHANGED <<who_result, triage_score, triage>>
    /\ UNCHANGED formVars
    /\ UNCHANGED <<authenticated, outbreak_status>>
    /\ UNCHANGED peer_session

NextLive ==
    \/ Login
    \/ StartDiagnosis
    \/ AdvisoryReturns
    \/ FinishDiagnosis

\* once the call has returned or raised, the interpreter runs the script to
\* its end; the wait for the provider has no such guarantee
LiveSpec == Init /\ [][NextLive]_vars /\ WF_vars(FinishDiagnosis)

(***************************************************************************)
(* Properties of who_sti_diagnosis (checked under SpecClassify)            *)
(***************************************************************************)
RecordFields == {"probable", "possible", "treatment", "labs"}

\* C1: for every sex and every symptom set, the empty set included, the
\* record returned by who_sti_diagnosis has exactly the four fields
\* probable, possible, treatment and labs, and none of them is empty.
C1_CompleteRecord ==
    pc = "classified" =>
        /\ DOMAIN who_result = RecordFields
        /\ \A f \in RecordFields : who_result[f] # ""

C1_Witness ==
    /\ pc = "classified"
    /\ symptoms = {}
    /\ who_result.probable = "No clear WHO-defined syndrome"
    /\ who_result.labs # ""

\* the decision list as the claim words it: rule k is RefConditions[k], its
\* syndrome is RefSyndromes[k], and the first rule that matches wins
RefConditions(sx, s) ==
    << sx = "Female" /\ ("Lower abdominal pain" \in s \/ "Dyspareunia" \in s
                         \/ ("Fever" \in s /\ "Vaginal discharge" \in s)),
       sx = "Female" /\ ("Vaginal discharge" \in s \/ "Itching/burning" \in s),
       sx = "Male" /\ ("Testicular/scrotal pain/swelling" \in s
                       \/ ("Fever" \in s /\ "Dysuria (painful urination)" \in s)),
       sx = "Male" /\ ("Urethral discharge" \in s
                       \/ "Dysuria (painful urination)" \in s),
       "Inguinal swelling/tenderness" \in s,
       "Genital ulcer(s)" \in s,
       TRUE >>

RefSyndromes ==
    << "Pelvic Inflammatory Disease (PID)",
       "Vaginal discharge syndrome",
       "Epididymo-orchitis",
       "Urethral discharge syndrome",
       "Inguinal bubo syndrome",
       "Genital ulcer disease",
       "No clear WHO-defined syndrome" >>

RefDecisionList(sx, s) ==
    LET m == RefConditions(sx, s)
        first == CHOOSE i \in 1 .. 7 : m[i] /\ \A j \in 1 .. (i - 1) : ~m[j]
    IN  RefSyndromes[first]

\* C2: for every sex and every symptom set, the syndrome returned by
\* who_sti_diagnosis is the one of the first matching rule of the ordered
\* decision list PID, vaginal discharge, epididymo-orchitis, urethral
\* discharge, inguinal bubo, genital ulcer, fallback.
C2_OrderedDecisionList ==
    pc = "classified" =>
        who_result.probable = RefDecisionList(sex, symptoms)

C2_Witness ==
    /\ pc = "classified"
    /\ sex = "Female"
    /\ symptoms = {"Itching/burning", "Inguinal swelling/tenderness",
                   "Genital ulcer(s)"}
    /\ who_result.probable = "Vaginal discharge syndrome"

\* C3 as stated: whenever the symptom set contains the inguinal swelling,
\* the result is the inguinal bubo syndrome, whatever the sex and the other
\* symptoms.
C3_BuboWheneverInguinal ==
    (pc = "classified" /\ "Inguinal swelling/tenderness" \in symptoms) =>
        who_result.probable = "Inguinal bubo syndrome"

\* a symptom of the block of the patient's own sex is present, so that one
\* of the rules 1-4 applies
OwnSexBlockSymptom(sx, s) ==
    \/ sx = "Female" /\ s \cap {"Lower abdominal pain", "Dyspareunia",
                                "Vaginal discharge", "Itching/burning"} # {}
    \/ sx = "Male" /\ s \cap {"Testicular/scrotal pain/swelling",
                              "Urethral discharge",
                              "Dysuria (painful urination)"} # {}

\* C3 (amended): when the symptom set contains the inguinal swelling and none
\* of the sex-gated rules 1-4 applies, the result is the inguinal bubo
\* syndrome, for either sex and also when genital ulcers are present.
C3_BuboUnlessSexRule ==
    (/\ pc = "classified"
     /\ "Inguinal swelling/tenderness" \in symptoms
     /\ ~OwnSexBlockSymptom(sex, symptoms)) =>
        who_result.probable = "Inguinal bubo syndrome"

C3_Witness ==
    /\ pc = "classified"
    /\ sex = "Male"
    /\ symptoms = {"Inguinal swelling/tenderness", "Genital ulcer(s)",
                   "Vaginal discharge"}
    /\ who_result.probable = "Inguinal bubo syndrome"

\* C4: a Female context with lower abdominal pain is always classified as
\* pelvic inflammatory disease, whatever else is present (vaginal discharge,
\* inguinal swelling and genital ulcers included).
C4_FemalePelvicPainIsPID ==
    (pc = "classified" /\ sex = "Female"
     /\ "Lower abdominal pain" \in symptoms) =>
        who_result.probable = "Pelvic Inflammatory Disease (PID)"

C4_Witness ==
    /\ pc = "classified"
    /\ sex = "Female"
    /\ symptoms = {"Lower abdominal pain", "Vaginal discharge",
                   "Inguinal swelling/tenderness", "Genital ulcer(s)"}
    /\ who_result.probable = "Pelvic Inflammatory Disease (PID)"

\* C5: a Male context with testicular/scrotal pain or swelling is always
\* classified as epididymo-orchitis and never as urethral discharge
\* syndrome, also when urethral discharge or dysuria is present.
C5_MaleTesticularIsEpididymoOrchitis ==
    (pc = "classified" /\ sex = "Male"
     /\ "Testicular/scrotal pain/swelling" \in symptoms) =>
        /\ who_result.probable = "Epididymo-orchitis"
        /\ who_result.probable # "Urethral discharge syndrome"

C5_Witness ==
    /\ pc = "classified"
    /\ sex = "Male"
    /\ symptoms = {"Testicular/scrotal pain/swelling", "Urethral discharge",
                   "Dysuria (painful urination)"}
    /\ who_result.probable = "Epididymo-orchitis"

\* C6: sex gates the sex-specific rules: a Female context is never
\* classified as epididymo-orchitis or urethral discharge syndrome, a Male
\* context never as pelvic inflammatory disease or vaginal discharge
\* syndrome.
C6_SexGate ==
    pc = "classified" =>
        /\ sex = "Female" =>
              who_result.probable \notin {"Epididymo-orchitis",
                                          "Urethral discharge syndrome"}
        /\ sex = "Male" =>
              who_result.probable \notin {"Pelvic Inflammatory Disease (PID)",
                                          "Vaginal discharge syndrome"}

C6_Witness ==
    /\ pc = "classified"
    /\ sex = "Female"
    /\ symptoms = {"Testicular/scrotal pain/swelling", "Fever",
                   "Dysuria (painful urination)", "Genital ulcer(s)"}
    /\ who_result.probable = "Genital ulcer disease"

IsFallback(r) ==
    /\ r.probable = "No clear WHO-defined syndrome"
    /\ r.labs = "Screen HIV/syphilis; NAAT if feasible"

MaleBlockSymptoms ==
    {"Urethral discharge", "Dysuria (painful urination)",
     "Testicular/scrotal pain/swelling"}

FemaleBlockSymptoms ==
    {"Vaginal discharge", "Itching/burning", "Dyspareunia",
     "Lower abdominal pain"}

\* C7: who_sti_diagnosis returns the fallback record exactly when none of
\* the rules 1-6 matches; the empty symptom set, a Female with male-block
\* symptoms only and a Male with female-block symptoms only reach it.
C7_FallbackIffNoRule ==
    pc = "classified" =>
        /\ IsFallback(who_result)
              <=> \A k \in 1 .. 6 : ~RefConditions(sex, symptoms)[k]
        /\ symptoms = {} => IsFallback(who_result)
        /\ (sex = "Female" /\ symptoms \subseteq MaleBlockSymptoms)
              => IsFallback(who_result)
        /\ (sex = "Male" /\ symptoms \subseteq FemaleBlockSymptoms)
              => IsFallback(who_result)

C7_Witness ==
    /\ pc = "classified"
    /\ sex = "Female"
    /\ symptoms = MaleBlockSymptoms
    /\ IsFallback(who_result)

(***************************************************************************)
(* Properties of calculate_triage_score (checked under SpecScore)          *)
(***************************************************************************)
\* the score as the claim words it: a vital adds its points when it is
\* measured (not None), whatever its value
RefScore(t, b, p, preg, h, syms) ==
    LET T == IF t # None /\ t[1] >= 390 THEN 3
             ELSE IF t # None /\ t[1] >= 380 THEN 1 ELSE 0
        B == IF b # None /\ b[1] < 90 THEN 3
             ELSE IF b # None /\ b[1] < 100 THEN 1 ELSE 0
        P == Min(3, p \div 3)
        G == IF preg = "Yes" THEN 2 ELSE 0
        H == IF h = "Positive" THEN 1 ELSE 0
        S == IF syms \cap {"Lower abdominal pain",
                           "Testicular/scrotal pain/swelling", "Fever"} # {}
             THEN 2 ELSE 0
    IN  Min(10, T + B + P + G + H + S)

\* C8: for every context the score is min(10, T + B + P + G + H + S), the
\* systolic term B being 3 below 90 and 1 from 90 to 99 for every measured
\* systolic value, and 0 only for a value that is None or at least 100.
C8_AdditiveFormula ==
    pc = "scored" =>
        triage_score[1] = RefScore(temp_val, sbp, pain, pregnant, hiv,
                                   symptoms)

\* C9: with every other field fixed, a measured systolic value that is lower
\* or equal gives a score that is higher or equal, for all systolic values
\* parse_bp produces, 0 included.
C9_InverseInSystolic ==
    (pc = "scored" /\ sbp # None) =>
        \A text \in BpInputs :
            LET other == parse_bp(text)[1]
            IN  (other # None /\ sbp[1] <= other[1]) =>
                    calculate_triage_score(temp_val, other, pain, pregnant,
                                           hiv, symptoms) <= triage_score[1]

\* C10: with every other field fixed, the score does not decrease when the
\* temperature rises, and does not decrease when the pain level rises
\* within 0..10.
C10_MonotoneInTempAndPain ==
    pc = "scored" =>
        /\ \A t \in TempInputs :
              (temp_val # None /\ t # None /\ temp_val[1] <= t[1]) =>
                  triage_score[1] <= calculate_triage_score(
                                        t, sbp, pain, pregnant, hiv, symptoms)
        /\ \A p \in PainLevels :
              pain <= p =>
                  triage_score[1] <= calculate_triage_score(
                                        temp_val, sbp, p, pregnant, hiv,
                                        symptoms)

C10_Witness ==
    /\ pc = "scored"
    /\ temp_val = Some(385)
    /\ pain = 5
    /\ sbp = Some(120)
    /\ pregnant = "No" /\ hiv = "Unknown" /\ symptoms = {}
    /\ triage_score = Some(2)


\* C11: for every context (pain 0..10, any vitals including None, any
\* pregnancy and HIV status, any symptom set) the triage score is an integer
\* from 0 to 10.
C11_ScoreRange ==
    pc = "scored" => triage_score[1] \in 0 .. 10

C11_Witness ==
    /\ pc = "scored"
    /\ temp_val = Some(395)
    /\ sbp = Some(85)
    /\ pain = 10
    /\ pregnant = "Yes"
    /\ hiv = "Positive"
    /\ "Fever" \in symptoms
    /\ triage_score = Some(10)

(***************************************************************************)
(* Properties of enhanced_triage_level (checked under SpecScore)           *)
(***************************************************************************)
RefLevel(score) ==
    CASE score >= 7 -> "RED"
      [] score >= 4 /\ score <= 6 -> "YELLOW"
      [] score <= 3 -> "GREEN"

\* C12: the triage level is a function of the score alone: RED from 7,
\* YELLOW from 4 to 6, GREEN up to 3 (so 3 is GREEN, 4 and 6 are YELLOW, 7 is
\* RED), and the symptoms and pregnant arguments of enhanced_triage_level
\* never change it.
C12_LevelFromScoreAlone ==
    pc = "scored" =>
        /\ triage = RefLevel(triage_score[1])
        /\ \A syms \in SUBSET ScoreSymptomTags, preg \in PregnantOptions :
              /\ enhanced_triage_level(triage_score[1], syms, preg) = triage
              /\ enhanced_triage_level(3, syms, preg) = "GREEN"
              /\ enhanced_triage_level(4, syms, preg) = "YELLOW"
              /\ enhanced_triage_level(6, syms, preg) = "YELLOW"
              /\ enhanced_triage_level(7, syms, preg) = "RED"

C12_Witness ==
    /\ pc = "scored"
    /\ triage_score = Some(7)
    /\ triage = "RED"
    /\ pregnant = "Yes"
    /\ symptoms = {"Lower abdominal pain"}


(***************************************************************************)
(* Properties of parse_bp (checked under SpecParse)                        *)
(***************************************************************************)
\* u is a run of digits with optional blanks on both sides
IsPaddedDigits(u) ==
    \E i, j \in 1 .. Len(u) :
        /\ i <= j
        /\ \A k \in 1 .. Len(u) :
              IF k >= i /\ k <= j THEN u[k] \in Digits ELSE u[k] \in Whitespace

\* the whole text is <digits>/<digits>, blanks allowed around the text and
\* around the slash
IsBpShape(t) ==
    \E p \in 1 .. Len(t) :
        /\ t[p] = "/"
        /\ IsPaddedDigits(SubSeq(t, 1, p - 1))
        /\ IsPaddedDigits(SubSeq(t, p + 1, Len(t)))

\* C20: parse_bp returns a pair of integers exactly when the whole text has
\* the shape <digits>/<digits> with optional whitespace; every other text
\* (empty, no slash, other characters, characters after the diastolic
\* digits) gives (None, None).
C20_WholeTextShape ==
    pc = "parsed" =>
        /\ (sbp # None /\ dbp # None) <=> IsBpShape(bp)
        /\ ~IsBpShape(bp) => (sbp = None /\ dbp = None)


(***************************************************************************)
(* Properties of detect_outbreak_patterns (checked under SpecOutbreak)     *)
(***************************************************************************)
\* the history is exactly ten cases that all carry the symptom set S
TenCasesOf(S) ==
    /\ Len(cases) = 10
    /\ \A i \in DOMAIN cases : cases[i].Symptoms = S

\* C13 as stated: on exactly ten cases that all carry the same non-empty
\* symptom set S, one symptom included, the result is the outbreak alert and
\* it names the symptoms of S.
C13_AlertOnTenIdentical ==
    pc = "detected" =>
        \A S \in SUBSET OutbreakTags :
            (S # {} /\ TenCasesOf(S)) =>
                outbreak_status = OutbreakAlert(S)

\* C13 (amended): on exactly ten cases that all carry the same symptom set S
\* of two or more symptoms the result is the outbreak alert; it names
\* symptoms of S only: all of them when S has up to three, three of them
\* otherwise.  When S is one symptom the result is the clear status.
C13_AlertOnTenIdenticalPairs ==
    pc = "detected" =>
        \A S \in SUBSET OutbreakTags :
            (S # {} /\ TenCasesOf(S)) =>
                IF Cardinality(S) >= 2
                THEN /\ outbreak_status.kind
                           = "Potential outbreak pattern detected"
                     /\ outbreak_status.named \subseteq S
                     /\ Cardinality(outbreak_status.named)
                           = Min(3, Cardinality(S))
                ELSE outbreak_status = NoOutbreak

C13_Witness ==
    /\ pc = "detected"
    /\ TenCasesOf({"Vaginal discharge", "Itching/burning"})
    /\ outbreak_status
         = OutbreakAlert({"Vaginal discharge", "Itching/burning"})

\* C14: a history of fewer than ten records always gives the
\* insufficient-data status, never an alert or the clear status; a history
\* of ten or more records never gives insufficient-data.
C14_InsufficientBelowTen ==
    pc = "detected" =>
        /\ Len(cases) < 10 => outbreak_status = InsufficientData
        /\ Len(cases) >= 10 => outbreak_status # InsufficientData

C14_Witness ==
    /\ pc = "detected"
    /\ Len(cases) = 10
    /\ outbreak_status.kind # "Insufficient data for outbreak detection"


(***************************************************************************)
(* Properties of the diagnosis run and of the case log (checked under      *)
(* Spec)                                                                   *)
(***************************************************************************)
\* the record appended by the k-th completed run of this session
SessionRecord(k) == cases[Len(cases) - Len(case_inputs) + k]

ExpectedFields ==
    {"probable", "possible", "treatment", "labs", "confidence", "patient_sms"}

\* the advisory is absent or malformed: the call raises, the reply is not
\* JSON, or the JSON object lacks an expected field or has a value there
\* that is not a string
AbsentOrMalformed(adv) ==
    \/ adv.raises
    \/ adv.json = None
    \/ \E f \in ExpectedFields :
          f \notin DOMAIN adv.json[1] \/ ~IsStr(adv.json[1][f])

\* C15: when the advisory is absent or malformed (the call raises, the reply
\* is not JSON, or the JSON lacks or mistypes expected fields), the saved
\* record has AI_Confidence "low" and AI_Treatment the dash, and its
\* WHO_Treatment is the treatment who_sti_diagnosis returned.
C15_SafeDefaultInRecord ==
    \A k \in DOMAIN case_inputs :
        AbsentOrMalformed(case_inputs[k].adv) =>
            /\ SessionRecord(k).AI_Confidence = JStr("low")
            /\ SessionRecord(k).AI_Treatment = JStr(EmDash)
            /\ SessionRecord(k).WHO_Treatment
                 = who_sti_diagnosis(case_inputs[k].ctx.sex,
                                     case_inputs[k].ctx.pregnant,
                                     case_inputs[k].ctx.symptoms).treatment

\* C16: whatever the advisory call does (exception, text that is not JSON,
\* JSON with missing fields, JSON whose probable, possible or confidence is
\* not a string), a run with symptoms selected ends without an uncaught
\* exception of the advisory handling and has appended exactly one record,
\* the one of this run.
C16_NoHardErrorFromAdvisory ==
    pc \in {"completed", "crashed"} =>
        /\ screen[Len(screen)].kind = "exception"
              => screen[Len(screen)].at = "to_csv"
        /\ case_inputs # <<>>
        /\ case_inputs[Len(case_inputs)].ctx.symptoms = symptoms
        /\ cases[Len(cases)].CaseID = case_counter - 1

DeterministicFields(r) ==
    <<r.WHO_SyndromicDiagnosis, r.WHO_Treatment, r.WHO_Followup, r.Triage,
      r.Triage_Score>>

\* C17: two runs with the same patient context and any two advisory
\* outcomes leave records with the same WHO_SyndromicDiagnosis,
\* WHO_Treatment, WHO_Followup, Triage and Triage_Score.
C17_AdvisoryDoesNotInfluence ==
    \A i, j \in DOMAIN case_inputs :
        case_inputs[i].ctx = case_inputs[j].ctx =>
            DeterministicFields(SessionRecord(i))
                = DeterministicFields(SessionRecord(j))

C17_Witness ==
    /\ Len(case_inputs) = 2
    /\ case_inputs[1].ctx = case_inputs[2].ctx
    /\ case_inputs[1].adv = Raises
    /\ case_inputs[2].adv = Reply(FullAdvisory)
    /\ SessionRecord(1).AI_Treatment # SessionRecord(2).AI_Treatment
    /\ SessionRecord(1).WHO_Treatment = SessionRecord(2).WHO_Treatment

\* the run met a failure of the claim: the advisory call raised, or the
\* write of the CSV file failed
AdvisoryRaised == pc \in {"completed", "crashed"} /\ ai_out.raised

CsvWriteFailed ==
    /\ pc = "crashed"
    /\ screen[Len(screen)].kind = "exception"
    /\ screen[Len(screen)].at = "to_csv"

\* positions on the page of the deterministic outputs of this run
TriageShownAt ==
    {i \in DOMAIN screen :
        /\ screen[i].kind = "triage"
        /\ screen[i].level = triage}

WhoShownAt ==
    {i \in DOMAIN screen :
        /\ screen[i].kind = "comparison"
        /\ screen[i].who_treatment = who_result.treatment
        /\ screen[i].who_dx
             = JoinStrip(who_result.probable, who_result.possible)}

\* positions on the page of a failure: the AI error notice, an exception
FailureShownAt ==
    {i \in DOMAIN screen : screen[i].kind \in {"error", "exception"}}

\* C18 as stated: in a run with symptoms selected, when the advisory call
\* raises or the CSV write fails, the WHO diagnosis, the WHO treatment and
\* the triage level are on the page and no failure comes before them.
C18_FailuresAfterDisplay ==
    (AdvisoryRaised \/ CsvWriteFailed) =>
        /\ TriageShownAt # {}
        /\ WhoShownAt # {}
        /\ \A f \in FailureShownAt, d \in TriageShownAt \cup WhoShownAt : d < f

\* C18 (amended): in such a run the WHO diagnosis, the WHO treatment and
\* the triage level are on the page; the failure of the CSV write comes
\* after them; a raising advisory call is caught before them: its error
\* notice is the first element and the deterministic outputs follow it.
C18_FailuresDoNotPreventDisplay ==
    (AdvisoryRaised \/ CsvWriteFailed) =>
        /\ TriageShownAt # {}
        /\ WhoShownAt # {}
        /\ CsvWriteFailed =>
              \A d \in TriageShownAt \cup WhoShownAt : d < Len(screen)
        /\ AdvisoryRaised =>
              /\ screen[1].kind = "error"
              /\ \A d \in TriageShownAt \cup WhoShownAt : d > 1
              /\ \A f \in FailureShownAt : f = 1 \/ f = Len(screen)

C18_Witness ==
    /\ AdvisoryRaised
    /\ CsvWriteFailed
    /\ TriageShownAt = {2}
    /\ WhoShownAt = {3}
    /\ triage = "RED"

\* C19: the case log is append-only: no rerun removes, reorders or changes a
\* record; a completed run puts exactly one record at the end; the history
\* filter, the export, the analytics, the outbreak detection, login and
\* logout leave the log as it is.
C19_AppendOnlyLog ==
    [][ /\ Len(cases') >= Len(cases)
        /\ Len(cases') <= Len(cases) + 1
        /\ SubSeq(cases', 1, Len(cases)) = cases
        /\ pc' = "completed" => Len(cases') = Len(cases) + 1
        /\ pc' \in {"idle", "warned"} => cases' = cases ]_vars

C19_Witness ==
    /\ Len(case_inputs) = 2
    /\ Len(cases) = 2
    /\ cases[1].CaseID = 1
    /\ cases[2].CaseID = 2
    /\ pc = "idle"
    /\ ~authenticated


(***************************************************************************)
(* Properties of validate_vitals (checked under SpecVitals)                *)
(***************************************************************************)
Warned(msg) == \E i \in DOMAIN vital_errors : vital_errors[i] = msg

\* a measured value outside the inclusive range lo..hi
OutOfRange(v, lo, hi) == v # None /\ (v[1] < lo \/ v[1] > hi)

\* C21: validate_vitals warns about every measured vital outside its range
\* and about no other: temperature outside 35..42 degrees, heart rate
\* outside 40..180, systolic outside 60..250, diastolic outside 40..150,
\* the bounds being in range; a measured 0 is flagged, a null never.
C21_WarnsIffOutOfRange ==
    pc = "validated" =>
        /\ Warned(TempWarning) <=> OutOfRange(temp_val, 350, 420)
        /\ Warned(HrWarning) <=> OutOfRange(hr_val, 40, 180)
        /\ Warned(SbpWarning) <=> OutOfRange(sbp, 60, 250)
        /\ Warned(DbpWarning) <=> OutOfRange(dbp, 40, 150)


(***************************************************************************)
(* Properties of detect_outbreak_patterns on the window (checked under     *)
(* SpecOutbreak and SpecWindow)                                            *)
(***************************************************************************)
\* the most recent min(50, total) records of a history, in append order
RefWindow(h) ==
    LET n == IF Len(h) < 50 THEN Len(h) ELSE 50
    IN  [i \in 1 .. n |-> h[Len(h) - n + i]]

\* number of records of w that carry the tag
RefCount(w, tag) == Cardinality({i \in DOMAIN w : tag \in w[i].Symptoms})

\* the tags that occur in strictly more than 30% of the records of w
RefQualifying(w) ==
    {tag \in OutbreakTags : 10 * RefCount(w, tag) > 3 * Len(w)}

IsAlert(status) == status.kind = "Potential outbreak pattern detected"

\* C22: for a history of at least 10 cases the status is the outbreak alert
\* iff at least two distinct symptoms each occur in strictly more than 30%
\* of the windowed cases, and the clear status otherwise; the alert names at
\* most three symptoms, qualifying ones, none with a lower count than a
\* qualifying symptom left out.
C22_AlertIffTwoAboveThirtyPercent ==
    (pc = "detected" /\ Len(cases) >= 10) =>
        LET w == RefWindow(cases)
            Q == RefQualifying(w)
        IN  /\ IsAlert(outbreak_status) <=> Cardinality(Q) >= 2
            /\ ~IsAlert(outbreak_status) => outbreak_status = NoOutbreak
            /\ IsAlert(outbreak_status) =>
                  /\ Cardinality(outbreak_status.named) <= 3
                  /\ outbreak_status.named \subseteq Q
                  /\ \A a \in outbreak_status.named,
                        b \in Q \ outbreak_status.named :
                        RefCount(w, a) >= RefCount(w, b)

\* an alert that names three symptoms while a fourth occurs in exactly 30%
\* of a window of ten
C22_Witness ==
    /\ pc = "detected"
    /\ Len(cases) = 10
    /\ IsAlert(outbreak_status)
    /\ Cardinality(outbreak_status.named) = 3
    /\ \E tag \in OutbreakTags \ outbreak_status.named :
          RefCount(RefWindow(cases), tag) = 3


\* C23: detect_outbreak_patterns depends only on the most recent
\* min(50, total) records: every history of at least 10 cases whose last 50
\* records (or all, if fewer) equal those of this history gets the same
\* status, whatever its older records are.
C23_DependsOnWindowOnly ==
    (pc = "detected" /\ Len(cases) >= 10) =>
        \A other \in WindowHistories :
            (Len(other) >= 10 /\ RefWindow(other) = RefWindow(cases)) =>
                /\ detect_outbreak_patterns(other)
                     = detect_outbreak_patterns(cases)
                /\ outbreak_status \in detect_outbreak_patterns(other)

\* a history with two older cases whose symptom is in exactly 30% of the
\* window: counted with the window it would be named, and it is not
C23_Witness ==
    /\ pc = "detected"
    /\ Len(cases) = OutbreakWindow + 2
    /\ cases[1].Symptoms = {"Genital ulcer(s)"}
    /\ RefCount(RefWindow(cases), "Genital ulcer(s)") = 15
    /\ IsAlert(outbreak_status)
    /\ "Genital ulcer(s)" \notin outbreak_status.named
    /\ \E other \in WindowHistories :
          /\ other # cases
          /\ Len(other) > OutbreakWindow
          /\ RefWindow(other) = RefWindow(cases)


(***************************************************************************)
(* Properties of the session, continued (checked under Spec)               *)
(***************************************************************************)
\* C24: the substituted advisory is the same on every failure path: when
\* the call raises and when its text does not parse, the advisory used for
\* the comparison and for the record is the six-field record with
\* probable "AI parsing issue", dashes, confidence "low" and the message
\* "Return if symptoms worsen.".
C24_SameSubstituteOnEveryFailure ==
    /\ (pc \in {"completed", "crashed"} /\ ai_out.raised) =>
          ai_out.dict = ParsingIssueRecord
    /\ \A k \in DOMAIN case_inputs :
          case_inputs[k].adv \in {Raises, Unparseable} =>
              /\ SessionRecord(k).AI_SyndromicDiagnosis
                   = "AI parsing issue; " \o EmDash
              /\ SessionRecord(k).AI_Treatment = ParsingIssueRecord.treatment
              /\ SessionRecord(k).AI_Confidence = ParsingIssueRecord.confidence
              /\ SessionRecord(k).SMS = ParsingIssueRecord.patient_sms


\* C25: every diagnosis run started with symptoms selected eventually
\* ends (with the safe default and its record appended) even when the
\* advisory provider never responds: the call is bounded by a timeout.
C25_RunEventuallyEnds ==
    (pc = "calling") ~> (pc \in {"completed", "crashed"})


\* C26: in every saved case record the Triage field is the level its own
\* Triage_Score maps to: RED from 7, YELLOW for 4 to 6, GREEN up to 3.
C26_RecordLevelFromRecordScore ==
    /\ \A i \in DOMAIN cases :
          cases[i].Triage = RefLevel(cases[i].Triage_Score)
    /\ csv.exists =>
          \A i \in DOMAIN csv.rows :
              csv.rows[i].Triage = RefLevel(csv.rows[i].Triage_Score)

\* a saved GREEN record of a patient with pain 8, next to a RED one
C26_Witness ==
    /\ Len(case_inputs) = 2
    /\ case_inputs[1].ctx.pain = 8
    /\ SessionRecord(1).Triage = "GREEN"
    /\ SessionRecord(1).Triage_Score = 2
    /\ SessionRecord(2).Triage = "RED"
    /\ SessionRecord(2).Triage_Score = 10
    /\ csv.exists
    /\ Len(csv.rows) = Len(cases)


(***************************************************************************)
(* Properties of the shared CSV file (checked under SpecTwoSessions)       *)
(***************************************************************************)
\* C27: with two sessions sharing diagnosis_cases.csv, a record written to
\* the file by a run of one session is still in the file after any later
\* run of the other session: the file never loses a record and keeps the
\* order of insertion.
C27_FileKeepsEveryRecord ==
    [][ csv.exists =>
           /\ csv'.exists
           /\ Len(csv'.rows) >= Len(csv.rows)
           /\ SubSeq(csv'.rows, 1, Len(csv.rows)) = csv.rows ]_vars


(***************************************************************************)
(* Properties of the case counter (checked under Spec)                     *)
(***************************************************************************)
\* C28: in every reachable state of a session, started from an empty log or
\* from a log loaded from the CSV, case_counter is the number of records of
\* the in-memory log plus one; so the CaseIDs assigned during the session
\* increase by one from record to record and no two records appended in
\* the session share a CaseID.
C28_CounterIsLengthPlusOne ==
    /\ case_counter = Len(cases) + 1
    /\ \A k \in DOMAIN case_inputs :
          SessionRecord(k).CaseID = Len(cases) - Len(case_inputs) + k
    /\ \A j, k \in DOMAIN case_inputs :
          j < k => SessionRecord(j).CaseID < SessionRecord(k).CaseID

\* a session started from the file of an earlier session whose run got
\* CaseID 2, the save to the file failing
C28_Witness ==
    /\ Len(cases) = 2
    /\ Len(case_inputs) = 1
    /\ cases[1] = ReadRow(EarlierRow)
    /\ cases[2].CaseID = 2
    /\ case_counter = 3
    /\ pc = "crashed"
    /\ Len(csv.rows) = 1


(***************************************************************************)
(* Properties of the form of the STI Diagnosis tab (checked under Spec)    *)
(***************************************************************************)
\* the selections the symptom field of the form can hand to the run
FormSelections == SUBSET StiSymptomOptions

\* C29: every symptom tag a classifier rule or the severe set of the scorer
\* tests can be in the symptom set the STI Diagnosis form hands over; in
\* particular "Fever" can, so that the Fever disjuncts of rules 1 and 3 and
\* the Fever member of the severe set can fire.
C29_TestedTagsSelectable ==
    /\ symptoms \in FormSelections
    /\ \A tag \in ClassifierTestedTags \cup severe_symptoms :
          \E sel \in FormSelections : tag \in sel


(***************************************************************************)
(* The two variants of the classifier (checked under SpecClassify)         *)
(***************************************************************************)
\* the tags whose tests differ between src/app.py and src/syndexv3.py
DriftedTags == {"Fever", "Dyspareunia", "Itching/burning"}

\* C30: for every sex and every symptom set with none of "Fever",
\* "Dyspareunia" and "Itching/burning", who_sti_diagnosis of app.py and
\* who_sti_diagnosis of syndexv3.py return the same record.
C30_VariantsAgreeOutsideDrift ==
    (pc = "classified_app" /\ symptoms \cap DriftedTags = {}) =>
        who_result = who_sti_diagnosis(sex, pregnant, symptoms)

\* a woman with inguinal swelling and an ulcer: both variants say bubo
C30_Witness ==
    /\ pc = "classified_app"
    /\ sex = "Female"
    /\ symptoms = {"Inguinal swelling/tenderness", "Genital ulcer(s)",
                   "Urethral discharge"}
    /\ who_result = InguinalBuboRecord
    /\ who_sti_diagnosis(sex, pregnant, symptoms) = InguinalBuboRecord

====
